---- MODULE Spec2Model ----
(***************************************************************************)
(* Resilience layer of the call-and-transcribe pipeline: the opossum       *)
(* circuit breakers created by PlivoResilient / DeepgramResilient, the     *)
(* retry loop executeWithRetry, the facade operations that compose them,   *)
(* the lazily built singleton clients, and the recording webhook with its  *)
(* detached transcription task.                                            *)
(*                                                                         *)
(* One action is one event-loop turn: a timer firing, a delegate promise   *)
(* settling, a request arriving.  The promise continuations that a turn    *)
(* schedules (breaker callback, facade return, task continuation up to its *)
(* next await) run inside the same action.                                 *)
(***************************************************************************)
EXTENDS Integers, Sequences, FiniteSets, TLC

\* ---------------------------------------------------------------- bounds
MaxReq == 2            \* facade calls / webhook deliveries considered
MaxRetriesCfg == 1     \* configured maxRetries is drawn from 0..MaxRetriesCfg
Buckets == 1           \* buckets kept in a breaker's rolling window
MaxTrialReq == 4       \* calls on one breaker in the half-open scenario
MaxCfgSteps == 2       \* steps of each configured backoff value
MaxPollAttempts == 2    \* maxAttempts of waitForRecording is drawn from 0..MaxPollAttempts

\* ------------------------------------------------------ program constants
DefaultMaxRetries == 3
DefaultRetryMultiplier == 2
ErrorThresholdPercentage == 50

\* request slots; the callers of a specification use the first MaxReq of
\* them, the half-open scenario all of them
Reqs == 1..MaxTrialReq
Callers == 1..MaxReq

Absent == "absent"         \* a key the envelope or record does not have
Undef == "undefined"       \* a delegate that resolves without a value

Facades == {"plivo", "deepgram"}
BreakerNames == {"makeCall", "getCallDetails", "transcribe"}

\* the breaker-wrapped public operations of the two facades
BreakerOps ==
    {"initiateRecordedCall", "makeCall", "getCallDetails",
     "transcribeRecording", "transcribeUrl", "transcribeWithInsights",
     "transcribeBuffer"}

\* the public operations of PlivoResilient that call executeWithRetry directly
PlainOps == {"terminateCall", "waitForRecording"}

FacadeOf(op) ==
    IF op \in {"initiateRecordedCall", "makeCall", "getCallDetails"} \cup PlainOps
    THEN "plivo" ELSE "deepgram"

BreakerOf(op) ==
    CASE op \in {"initiateRecordedCall", "makeCall"} -> "makeCall"
      [] op = "getCallDetails" -> "getCallDetails"
      [] OTHER -> "transcribe"

BreakersOfFacade(f) ==
    IF f = "plivo" THEN {"makeCall", "getCallDetails"} ELSE {"transcribe"}

\* operations whose success branch reads fields of the resolved value
ProjectsResult(op) == op \in {"initiateRecordedCall", "makeCall", "terminateCall"}

\* values a delegate may resolve to, and errors it may reject with
\* (an error is identified by its message; "" is an Error without message)
Values == {"t1", "t2", Undef}
DelegateErrors == {"", "boom"}

Uuids == {"call-1", "call-2"}

\* fields of the transcription response named by a resolved value
Transcript(v) == IF v = "t1" THEN "hello world" ELSE "bye"
Confidence(v) == IF v = "t1" THEN 92 ELSE 40
WordCount(v) == IF v = "t1" THEN 2 ELSE 1

VARIABLES
    maxRetriesCfg,   \* config.maxRetries handed to the facade constructors
    delayCfg,        \* per facade: config.retryDelay, .retryMultiplier, .maxRetryDelay
    envOk,           \* the facade's required environment values are present
    client,          \* the singleton of clients.ts: "none" or "live"
    hadReset,        \* a facade instance shut down by resetClients exists
    br,              \* per breaker name: opossum state of the current instance
    req,             \* per request: the facade call, its retry loop, its task
    rec              \* table 'calls' of the datastore, keyed by call_uuid

vars == <<maxRetriesCfg, delayCfg, envOk, client, hadReset, br, req, rec>>

\* ------------------------------------------------------- rolling window
ZeroBucket == [fires |-> 0, failures |-> 0, successes |-> 0]

FreshBreaker ==
    [state |-> "closed", pendingClose |-> FALSE,
     win |-> [i \in 1..Buckets |-> ZeroBucket]]

RECURSIVE SumWin(_, _, _)
SumWin(w, prop, i) ==
    IF i = 0 THEN 0 ELSE w[i][prop] + SumWin(w, prop, i - 1)

Stat(b, prop) == SumWin(b.win, prop, Len(b.win))

Increment(b, prop) == [b EXCEPT !.win[1][prop] = @ + 1]

\* the window drops its oldest bucket and starts an empty one
NextBucket(b) ==
    [b EXCEPT !.win = <<ZeroBucket>> \o SubSeq(@, 1, Len(@) - 1)]

\* ------------------------------------------------------ breaker internals
OpenBreaker(b) ==
    IF b.state # "open" THEN [b EXCEPT !.state = "open", !.pendingClose = FALSE]
    ELSE b

\* a close() that leaves a circuit open while its statistics are bad
CloseBreakerIfHealthy(b) ==
    IF b.state # "closed"
       /\ (b.state = "halfOpen"
           \/ Stat(b, "failures") * 100 <= ErrorThresholdPercentage * Stat(b, "fires"))
    THEN [b EXCEPT !.state = "closed", !.pendingClose = FALSE]
    ELSE b

\* close(): the rolling window is left as it is
CloseBreaker(b) ==
    IF b.state # "closed" THEN [b EXCEPT !.state = "closed", !.pendingClose = FALSE]
    ELSE b

ErrorRateExceeded(b) ==
    IF Stat(b, "fires") = 0 THEN TRUE
    ELSE Stat(b, "failures") * 100 > ErrorThresholdPercentage * Stat(b, "fires")

\* 'failure' event followed by the check that may open the circuit
Fail(b) ==
    LET c == Increment(b, "failures") IN
    IF c.state = "halfOpen" \/ ErrorRateExceeded(c) THEN OpenBreaker(c) ELSE c

\* 'success' event and its listener that closes a half-open circuit
Succeed(b) ==
    LET c == Increment(b, "successes") IN
    IF c.state = "halfOpen" THEN CloseBreaker(c) ELSE c

Opened(b) == b.state = "open"

\* String(breaker.opened)
StateString(b) == IF Opened(b) THEN "true" ELSE "false"

\* executeWithRetry: this.config.maxRetries || 3
EffectiveMaxRetries ==
    IF maxRetriesCfg = 0 THEN DefaultMaxRetries ELSE maxRetriesCfg

\* the facade a breaker belongs to
FacadeOfBreaker(n) == IF n = "transcribe" THEN "deepgram" ELSE "plivo"

\* the backoff configuration lib/clients.ts hands to the two facades
ClientsDelayCfg ==
    [f \in Facades |->
        IF f = "plivo"
        THEN [retryDelay |-> 1000, retryMultiplier |-> 2, maxRetryDelay |-> 10000]
        ELSE [retryDelay |-> 2000, retryMultiplier |-> 2, maxRetryDelay |-> 20000]]

\* backoff configurations a caller may construct a facade with
RetryDelays == {500 * k : k \in 0..MaxCfgSteps}
RetryMultipliers == 0..(MaxCfgSteps + 1)
MaxRetryDelays == {1500 * k : k \in 0..MaxCfgSteps}
DelayCfgs ==
    [retryDelay : RetryDelays, retryMultiplier : RetryMultipliers,
     maxRetryDelay : MaxRetryDelays]

\* executeWithRetry: this.config.retryDelay || 1000 (Deepgram: || 2000)
EffectiveRetryDelay(f) ==
    IF delayCfg[f].retryDelay = 0
    THEN (IF f = "plivo" THEN 1000 ELSE 2000)
    ELSE delayCfg[f].retryDelay

\* executeWithRetry: this.config.retryMultiplier || 2
EffectiveRetryMultiplier(f) ==
    IF delayCfg[f].retryMultiplier = 0
    THEN DefaultRetryMultiplier
    ELSE delayCfg[f].retryMultiplier

\* executeWithRetry: this.config.maxRetryDelay || 10000 (Deepgram: || 20000)
EffectiveMaxRetryDelay(f) ==
    IF delayCfg[f].maxRetryDelay = 0
    THEN (IF f = "plivo" THEN 10000 ELSE 20000)
    ELSE delayCfg[f].maxRetryDelay

\* Math.pow on non-negative integers; Math.pow(x, 0) is 1 for every x
RECURSIVE Pow(_, _)
Pow(b, e) == IF e = 0 THEN 1 ELSE b * Pow(b, e - 1)

\* Math.min
Min(a, b) == IF a <= b THEN a ELSE b

\* a backoff that grows by retryDelay with every attempt
ComputeDelayLinear(f, attempt) ==
    Min(EffectiveRetryDelay(f) * (attempt + 1), EffectiveMaxRetryDelay(f))

\* Math.min(retryDelay * Math.pow(retryMultiplier, attempt), maxRetryDelay)
ComputeDelay(f, attempt) ==
    Min(EffectiveRetryDelay(f) * Pow(EffectiveRetryMultiplier(f), attempt),
        EffectiveMaxRetryDelay(f))

\* throw lastError: what executeWithRetry fails with after its last attempt
\* is the error it caught, which carries no name of the operation retried
Thrown(e) == [message |-> e, operationName |-> Absent]

\* ------------------------------------------------------------- envelopes
NoEnvelope ==
    [success |-> FALSE, data |-> Absent, error |-> Absent,
     retryCount |-> 0, circuitBreakerState |-> Absent, made |-> FALSE]

\* a success envelope that never reports an open breaker
SuccessEnvelopeNotOpen(v, n, b) ==
    [success |-> TRUE, data |-> v, error |-> Absent,
     retryCount |-> n, circuitBreakerState |-> "false", made |-> TRUE]

SuccessEnvelope(v, n, b) ==
    [success |-> TRUE, data |-> v, error |-> Absent,
     retryCount |-> n, circuitBreakerState |-> StateString(b), made |-> TRUE]

\* a catch block that passes on only errors that carry a message
FailureEnvelopeBare(e, b) ==
    [success |-> FALSE, data |-> Absent, error |-> IF e = "" THEN Absent ELSE e,
     retryCount |-> 0, circuitBreakerState |-> StateString(b), made |-> TRUE]

FailureEnvelope(e, b) ==
    [success |-> FALSE, data |-> Absent, error |-> e,
     retryCount |-> 0, circuitBreakerState |-> StateString(b), made |-> TRUE]

\* terminateCall's envelopes have no circuitBreakerState key
PlainSuccessEnvelope(v, n) ==
    [success |-> TRUE, data |-> v, error |-> Absent,
     retryCount |-> n, circuitBreakerState |-> Absent, made |-> TRUE]

PlainFailureEnvelope(e) ==
    [success |-> FALSE, data |-> Absent, error |-> e,
     retryCount |-> 0, circuitBreakerState |-> Absent, made |-> TRUE]

\* kind: "none" | "api" (a caller of a facade operation) | "webhook"
\* breaker, projects: what the operation called fixes, BreakerOf(op) and
\* ProjectsResult(op); operations that agree on both run the same code
\* fpc: position of the facade call; lpc: position of its retry loop;
\* tpc: position of the webhook handler and of its transcription task.
\* val, orphaned, admit .. cFail, nCompleted .. wrote record what happened
\* to the request: the value its delegate resolved to, whether its breaker
\* was shut down under it, the breaker state that met it, its numbers of
\* rejections, backoff sleeps and the delay of each, invocations made while
\* the breaker was open,
\* 'fire'/'success'/'failure' events counted for it by the rolling window,
\* and the terminal writes of its task.
IdleReq ==
    [kind |-> "none", breaker |-> "none", projects |-> FALSE, fpc |-> "idle", lpc |-> "none",
     attempt |-> 0, retryCount |-> 0, invoked |-> 0,
     timedOut |-> FALSE, stale |-> FALSE,
     err |-> Absent, env |-> NoEnvelope, val |-> Absent, orphaned |-> FALSE,
     admit |-> "none", nRej |-> 0, sleeps |-> 0, delays |-> <<>>, invOpen |-> 0,
     cFires |-> 0, cSucc |-> 0, cFail |-> 0,
     uuid |-> Absent, tpc |-> "none", response |-> "none", terr |-> Absent,
     nCompleted |-> 0, nFailed |-> 0, writeErr |-> FALSE, escaped |-> FALSE,
     wrote |-> "none", maxAttempts |-> 0, polls |-> <<>>]

NoRecord == [transcription_status |-> Absent, transcript |-> Absent,
             transcription_confidence |-> 0, word_count |-> 0,
             transcription_error |-> Absent, writer |-> 0]

\* no client built yet; the environment of the deployment is complete
Init ==
    /\ maxRetriesCfg \in 1..MaxRetriesCfg
    /\ delayCfg = ClientsDelayCfg
    /\ envOk = [f \in Facades |-> TRUE]
    /\ client = [f \in Facades |-> "none"]
    /\ hadReset = [f \in Facades |-> FALSE]
    /\ br = [n \in BreakerNames |-> FreshBreaker]
    /\ req = [r \in Reqs |-> IdleReq]
    /\ rec = [u \in Uuids |-> NoRecord]


\* ------------------------------------------------- webhook task: results
\* state of a breaker instance after shutdown(): never open again
ShutBreaker == [FreshBreaker EXCEPT !.state = "shutdown"]

\* the message of the envelope's error, taken as it is
ErrorMessageRaw(e) == IF e.error = Absent THEN "" ELSE e.error

\* result.error?.message || 'Transcription failed'
ErrorMessage(e) ==
    IF e.error \in {Absent, ""} THEN "Transcription failed" ELSE e.error

\* a task that gives up on a failure envelope without recording it
ReturnedNoFailedWrite(rq, e) ==
    LET q == [rq EXCEPT !.fpc = "returned", !.env = e] IN
    IF rq.kind # "webhook" THEN q
    ELSE IF e.success /\ e.data \notin {Absent, Undef}
         THEN [q EXCEPT !.tpc = "writingCompleted", !.nCompleted = @ + 1]
         ELSE [q EXCEPT !.tpc = "done"]

\* the facade operation returns envelope e; for a webhook request the task
\* goes on to the await of its terminal write
Returned(rq, e) ==
    LET q == [rq EXCEPT !.fpc = "returned", !.env = e] IN
    IF rq.kind # "webhook" THEN q
    ELSE IF e.success /\ e.data \notin {Absent, Undef}
         THEN [q EXCEPT !.tpc = "writingCompleted", !.nCompleted = @ + 1]
         ELSE [q EXCEPT !.tpc = "writingFailed", !.nFailed = @ + 1,
                        !.terr = ErrorMessage(e)]

\* a catch block that hides the cause behind a generic error
CatchGeneric(rq, e, b) == Returned(rq, FailureEnvelope("Operation failed", b))

\* a catch block that lets the error escape to the caller
CatchRethrows(rq, e, b) == [rq EXCEPT !.fpc = "threw", !.err = e]

\* catch block of a facade operation
Catch(rq, e, b) == Returned(rq, FailureEnvelope(e, b))

\* success branch of a facade operation (try block after the await); a
\* value is identified by the fields that the operations read from it
SuccessReturn(rq, v, b) ==
    IF rq.projects /\ v = Undef
    THEN Catch(rq, "TypeError", b)
    ELSE Returned(rq, SuccessEnvelope(v, rq.retryCount, b))

\* a breaker that admits every call, whatever its state
FireResultUngated(rq, b) ==
    [b |-> [Increment(b, "fires") EXCEPT !.pendingClose = FALSE],
     rq |-> [rq EXCEPT !.admit = b.state, !.cFires = @ + 1,
                       !.fpc = "waiting", !.lpc = "inflight",
                       !.retryCount = 1, !.invoked = 1]]

\* a breaker that looks at its state only after having run the operation
FireResultInvokesFirst(rq, b) ==
    LET b1 == Increment(b, "fires")
        q == [rq EXCEPT !.admit = b.state, !.cFires = @ + 1,
                        !.retryCount = 1, !.invoked = 1]
    IN  IF b1.state # "closed" /\ ~b1.pendingClose
        THEN [b |-> b1, rq |-> Returned(q, FailureEnvelope("EOPENBREAKER", b1))]
        ELSE [b |-> [b1 EXCEPT !.pendingClose = FALSE],
              rq |-> [q EXCEPT !.fpc = "waiting", !.lpc = "inflight"]]

\* breaker.fire(() => executeWithRetry(() => { retryCount++; delegate() }))
\* up to the first await: rejected at once, or admitted with the delegate
\* invoked for attempt 0
FireResult(rq, b) ==
    LET b1 == Increment(b, "fires")
        q == [rq EXCEPT !.admit = b.state, !.cFires = @ + 1]
    IN  IF b1.state # "closed" /\ ~b1.pendingClose
        THEN [b |-> b1, rq |-> Catch(q, "EOPENBREAKER", b1)]
        ELSE [b |-> [b1 EXCEPT !.pendingClose = FALSE],
              rq |-> [q EXCEPT !.fpc = "waiting", !.lpc = "inflight",
                               !.retryCount = 1, !.invoked = 1]]

\* the call of rq went through a breaker
Wrapped(rq) == rq.breaker # "none"

\* executeWithRetry of terminateCall (projects) or waitForRecording has
\* resolved with v: terminateCall returns an envelope, waitForRecording the
\* value itself
PlainSuccessReturn(rq, v) ==
    IF rq.projects
    THEN [rq EXCEPT !.fpc = "returned",
                    !.env = IF v = Undef THEN PlainFailureEnvelope("TypeError")
                            ELSE PlainSuccessEnvelope(v, rq.retryCount)]
    ELSE [rq EXCEPT !.fpc = "returned"]

\* catch block of terminateCall (failure envelope) and of waitForRecording
\* (logs the error and returns null)
PlainCatch(rq, e) ==
    IF rq.projects
    THEN [rq EXCEPT !.fpc = "returned", !.env = PlainFailureEnvelope(e)]
    ELSE [rq EXCEPT !.fpc = "returned", !.val = "null"]

NextToStart(r) ==
    /\ req[r].kind = "none"
    /\ \A p \in Reqs : p < r => req[p].kind # "none"

\* getPlivoClient / getDeepgramClient return an instance (built if needed)
CanGet(f) == client[f] = "live" \/ envOk[f]

\* ----------------------------------------------------------------- actions
\* a get function that builds a new facade for every caller
ApiFireNewInstance(r, op) ==
    /\ NextToStart(r)
    /\ CanGet(FacadeOf(op))
    /\ LET n == BreakerOf(op)
           res == FireResult([req[r] EXCEPT !.kind = "api", !.breaker = n,
                                            !.projects = ProjectsResult(op)],
                             FreshBreaker)
       IN  /\ br' = [br EXCEPT ![n] = res.b]
           /\ req' = [req EXCEPT ![r] = res.rq]
    /\ client' = [client EXCEPT ![FacadeOf(op)] = "live"]
    /\ UNCHANGED <<maxRetriesCfg, delayCfg, envOk, hadReset, rec>>

\* a caller obtains the singleton and calls one breaker-wrapped operation
ApiFire(r, op) ==
    /\ NextToStart(r)
    /\ CanGet(FacadeOf(op))
    /\ LET n == BreakerOf(op)
           res == FireResult([req[r] EXCEPT !.kind = "api", !.breaker = n,
                                            !.projects = ProjectsResult(op)],
                             br[n])
       IN  /\ br' = [br EXCEPT ![n] = res.b]
           /\ req' = [req EXCEPT ![r] = res.rq]
    /\ client' = [client EXCEPT ![FacadeOf(op)] = "live"]
    /\ UNCHANGED <<maxRetriesCfg, delayCfg, envOk, hadReset, rec>>

\* a caller still holding an instance that resetClients has shut down
FireStale(r, op) ==
    /\ NextToStart(r)
    /\ hadReset[FacadeOf(op)]
    /\ req' = [req EXCEPT ![r] =
                 Catch([req[r] EXCEPT !.kind = "api", !.breaker = BreakerOf(op),
                                      !.projects = ProjectsResult(op),
                                      !.stale = TRUE, !.admit = "shutdown"],
                       "ESHUTDOWN", ShutBreaker)]
    /\ UNCHANGED <<maxRetriesCfg, delayCfg, envOk, client, hadReset, br, rec>>

\* a caller obtains the Plivo singleton and calls terminateCall or
\* waitForRecording: executeWithRetry runs with no breaker around it
PlainFire(r, op) ==
    /\ NextToStart(r)
    /\ CanGet(FacadeOf(op))
    /\ req' = [req EXCEPT ![r] =
                 [@ EXCEPT !.kind = "api", !.projects = ProjectsResult(op),
                           !.fpc = "waiting", !.lpc = "inflight",
                           !.retryCount = 1, !.invoked = 1]]
    /\ client' = [client EXCEPT ![FacadeOf(op)] = "live"]
    /\ UNCHANGED <<maxRetriesCfg, delayCfg, envOk, hadReset, br, rec>>

\* the delegate's promise resolves with v (waitForRecording turns a missing
\* result into a rejection: see DelegateReject)
DelegateResolve(r, v) ==
    /\ req[r].lpc = "inflight"
    /\ ~(~Wrapped(req[r]) /\ ~req[r].projects /\ v = Undef)
    /\ LET n == req[r].breaker
           q == [req[r] EXCEPT !.lpc = "ok", !.err = Absent, !.val = v]
       IN  IF ~Wrapped(req[r])
           THEN /\ req' = [req EXCEPT ![r] = PlainSuccessReturn(q, v)]
                /\ UNCHANGED br
           ELSE IF req[r].timedOut
           THEN /\ req' = [req EXCEPT ![r] = [q EXCEPT !.val = Absent]]
                /\ UNCHANGED br
           ELSE IF req[r].stale
           THEN /\ req' = [req EXCEPT ![r] = SuccessReturn(q, v, ShutBreaker)]
                /\ UNCHANGED br
           ELSE /\ br' = [br EXCEPT ![n] = Succeed(@)]
                /\ req' = [req EXCEPT ![r] =
                             SuccessReturn([q EXCEPT !.cSucc = @ + 1], v, br'[n])]
    /\ UNCHANGED <<maxRetriesCfg, delayCfg, envOk, client, hadReset, rec>>

\* a composition with the breaker inside the retry loop: every failed
\* attempt is a failure of the rolling window
DelegateRejectCounted(r, e) ==
    /\ req[r].lpc = "inflight"
    /\ LET n == req[r].breaker
           last == req[r].attempt >= EffectiveMaxRetries
           q == [req[r] EXCEPT !.err = IF last THEN Absent ELSE e, !.nRej = @ + 1,
                               !.lpc = IF last THEN "exhausted" ELSE "sleeping",
                               !.sleeps = IF last THEN @ ELSE @ + 1,
                               !.delays = IF last THEN @
                                          ELSE Append(@, ComputeDelay(FacadeOfBreaker(n), req[r].attempt))]
       IN  IF req[r].timedOut \/ req[r].stale
           THEN /\ req' = [req EXCEPT ![r] =
                             IF last /\ ~req[r].timedOut
                             THEN Returned(q, FailureEnvelope(e, ShutBreaker)) ELSE q]
                /\ UNCHANGED br
           ELSE /\ br' = [br EXCEPT ![n] = Fail(@)]
                /\ req' = [req EXCEPT ![r] =
                             IF last
                             THEN Returned([q EXCEPT !.cFail = @ + 1],
                                           FailureEnvelope(e, br'[n]))
                             ELSE [q EXCEPT !.cFail = @ + 1]]
    /\ UNCHANGED <<maxRetriesCfg, delayCfg, envOk, client, hadReset, rec>>

\* the delegate's promise rejects with e: the catch block of executeWithRetry
DelegateReject(r, e) ==
    /\ req[r].lpc = "inflight"
    /\ LET n == req[r].breaker
           q == [req[r] EXCEPT !.err = e, !.nRej = @ + 1]
       IN  IF req[r].attempt < EffectiveMaxRetries
           THEN /\ req' = [req EXCEPT ![r] =
                             [q EXCEPT !.lpc = "sleeping", !.sleeps = @ + 1,
                                       !.delays = Append(@, ComputeDelay(FacadeOfBreaker(n), req[r].attempt))]]
                /\ UNCHANGED br
           ELSE LET x == [q EXCEPT !.lpc = "exhausted"] IN
                IF ~Wrapped(req[r])
                THEN /\ req' = [req EXCEPT ![r] = PlainCatch(x, e)]
                     /\ UNCHANGED br
                ELSE IF req[r].timedOut
                THEN /\ req' = [req EXCEPT ![r] = [x EXCEPT !.err = Absent]]
                     /\ UNCHANGED br
                ELSE IF req[r].stale
                THEN /\ req' = [req EXCEPT ![r] = Catch(x, e, ShutBreaker)]
                     /\ UNCHANGED br
                ELSE /\ br' = [br EXCEPT ![n] = Fail(@)]
                     /\ req' = [req EXCEPT ![r] =
                                  Catch([x EXCEPT !.cFail = @ + 1], e, br'[n])]
    /\ UNCHANGED <<maxRetriesCfg, delayCfg, envOk, client, hadReset, rec>>

\* a retry loop whose attempts after the first are not counted
SleepDoneNoCount(r) ==
    /\ req[r].lpc = "sleeping"
    /\ req' = [req EXCEPT ![r] =
                 [@ EXCEPT !.lpc = "inflight", !.attempt = @ + 1, !.invoked = @ + 1]]
    /\ UNCHANGED <<maxRetriesCfg, delayCfg, envOk, client, hadReset, br, rec>>

\* a retry that starts the next attempt twice
SleepDoneTwice(r) ==
    /\ req[r].lpc = "sleeping"
    /\ req' = [req EXCEPT ![r] =
                 [@ EXCEPT !.lpc = "inflight", !.attempt = @ + 1,
                           !.retryCount = @ + 2, !.invoked = @ + 2,
                           !.invOpen = IF Wrapped(req[r]) /\ ~req[r].stale
                                          /\ Opened(br[req[r].breaker])
                                       THEN @ + 1 ELSE @]]
    /\ UNCHANGED <<maxRetriesCfg, delayCfg, envOk, client, hadReset, br, rec>>

\* the backoff timer of executeWithRetry fires: next attempt
SleepDone(r) ==
    /\ req[r].lpc = "sleeping"
    /\ req' = [req EXCEPT ![r] =
                 [@ EXCEPT !.lpc = "inflight", !.attempt = @ + 1,
                           !.retryCount = @ + 1, !.invoked = @ + 1,
                           !.invOpen = IF Wrapped(req[r]) /\ ~req[r].stale
                                          /\ Opened(br[req[r].breaker])
                                       THEN @ + 1 ELSE @]]
    /\ UNCHANGED <<maxRetriesCfg, delayCfg, envOk, client, hadReset, br, rec>>

\* a timeout armed for the first attempt only
BreakerTimeoutFirstAttempt(r) ==
    /\ req[r].fpc = "waiting"
    /\ Wrapped(req[r])
    /\ req[r].attempt = 0 /\ req[r].lpc = "inflight"
    /\ LET n == req[r].breaker
           q == [req[r] EXCEPT !.timedOut = TRUE]
       IN  IF req[r].stale
           THEN /\ req' = [req EXCEPT ![r] = Catch(q, "ETIMEDOUT", ShutBreaker)]
                /\ UNCHANGED br
           ELSE /\ br' = [br EXCEPT ![n] = Fail(@)]
                /\ req' = [req EXCEPT ![r] =
                             Catch([q EXCEPT !.cFail = @ + 1], "ETIMEDOUT", br'[n])]
    /\ UNCHANGED <<maxRetriesCfg, delayCfg, envOk, client, hadReset, rec>>

\* a facade whose operations share their failure statistics: the timeout
\* is counted by every breaker
BreakerTimeoutShared(r) ==
    /\ req[r].fpc = "waiting"
    /\ Wrapped(req[r])
    /\ LET n == req[r].breaker
           q == [req[r] EXCEPT !.timedOut = TRUE]
       IN  IF req[r].stale
           THEN /\ req' = [req EXCEPT ![r] = Catch(q, "ETIMEDOUT", ShutBreaker)]
                /\ UNCHANGED br
           ELSE /\ br' = [m \in BreakerNames |-> Fail(br[m])]
                /\ req' = [req EXCEPT ![r] =
                             Catch([q EXCEPT !.cFail = @ + 1], "ETIMEDOUT", br'[n])]
    /\ UNCHANGED <<maxRetriesCfg, delayCfg, envOk, client, hadReset, rec>>

\* the breaker's request timeout fires before the action has settled
BreakerTimeout(r) ==
    /\ req[r].fpc = "waiting"
    /\ Wrapped(req[r])
    /\ LET n == req[r].breaker
           q == [req[r] EXCEPT !.timedOut = TRUE]
       IN  IF req[r].stale
           THEN /\ req' = [req EXCEPT ![r] = Catch(q, "ETIMEDOUT", ShutBreaker)]
                /\ UNCHANGED br
           ELSE /\ br' = [br EXCEPT ![n] = Fail(@)]
                /\ req' = [req EXCEPT ![r] =
                             Catch([q EXCEPT !.cFail = @ + 1], "ETIMEDOUT", br'[n])]
    /\ UNCHANGED <<maxRetriesCfg, delayCfg, envOk, client, hadReset, rec>>

\* resetTimeout elapses on an open breaker
ResetTimer(n) ==
    /\ br[n].state = "open"
    /\ br' = [br EXCEPT ![n] = [@ EXCEPT !.state = "halfOpen", !.pendingClose = TRUE]]
    /\ UNCHANGED <<maxRetriesCfg, delayCfg, envOk, client, hadReset, req, rec>>

\* resetCircuitBreakers() on the live instance of facade f: close() on each
\* of its breakers
ResetCircuitBreakers(f) ==
    /\ client[f] = "live"
    /\ br' = [n \in BreakerNames |->
                IF n \in BreakersOfFacade(f) THEN CloseBreaker(br[n]) ELSE br[n]]
    /\ UNCHANGED <<maxRetriesCfg, delayCfg, envOk, client, hadReset, req, rec>>

\* one bucket interval of the rolling window elapses
RollWindow(n) ==
    /\ client[IF n = "transcribe" THEN "deepgram" ELSE "plivo"] = "live"
    /\ br[n].win # NextBucket(br[n]).win
    /\ br' = [br EXCEPT ![n] = NextBucket(@)]
    /\ UNCHANGED <<maxRetriesCfg, delayCfg, envOk, client, hadReset, req, rec>>

\* resetClients(): shut down and forget both singletons
ResetClients ==
    /\ \E f \in Facades : client[f] = "live"
    /\ client' = [f \in Facades |-> "none"]
    /\ hadReset' = [f \in Facades |-> hadReset[f] \/ client[f] = "live"]
    /\ br' = [n \in BreakerNames |-> FreshBreaker]
    /\ req' = [r \in Reqs |->
                 IF req[r].kind # "none" /\ (req[r].fpc = "waiting"
                                              \/ req[r].lpc \in {"inflight", "sleeping"})
                 THEN [req[r] EXCEPT !.stale = TRUE,
                                     !.orphaned = @ \/ req[r].fpc = "waiting"]
                 ELSE req[r]]
    /\ UNCHANGED <<maxRetriesCfg, delayCfg, envOk, rec>>

\* the deployment's environment gets its missing values
SetEnv(f) ==
    /\ ~envOk[f]
    /\ envOk' = [envOk EXCEPT ![f] = TRUE]
    /\ UNCHANGED <<maxRetriesCfg, delayCfg, client, hadReset, br, req, rec>>

\* ------------------------------------------------ recording webhook (POST)
\* supabase.from('calls').upsert({... transcription_status: 'pending' ...})
UpsertPending(t, r) ==
    [t EXCEPT !.transcription_status = "pending", !.writer = r]

\* an update that forgets the word count
UpdateCompletedNoWordCount(t, v, r) ==
    IF t.transcription_status = Absent THEN t
    ELSE [t EXCEPT !.transcription_status = "completed",
                   !.transcript = Transcript(v),
                   !.transcription_confidence = Confidence(v),
                   !.writer = r]

\* .update({transcript, ..., transcription_status: 'completed'}).eq(call_uuid)
\* matches no row when the record does not exist
UpdateCompleted(t, v, r) ==
    IF t.transcription_status = Absent THEN t
    ELSE [t EXCEPT !.transcription_status = "completed",
                   !.transcript = Transcript(v),
                   !.transcription_confidence = Confidence(v),
                   !.word_count = WordCount(v),
                   !.writer = r]

\* .update({transcription_status: 'failed', transcription_error}).eq(call_uuid)
UpdateFailed(t, msg, r) ==
    IF t.transcription_status = Absent THEN t
    ELSE [t EXCEPT !.transcription_status = "failed",
                   !.transcription_error = msg, !.writer = r]

\* a handler that stores the record before it looks at the required fields
PostReceiveStoresFirst(r, u, valid) ==
    /\ NextToStart(r)
    /\ req' = [req EXCEPT ![r] =
                 IF valid
                 THEN [@ EXCEPT !.kind = "webhook", !.uuid = u, !.tpc = "upserting"]
                 ELSE [@ EXCEPT !.kind = "webhook", !.tpc = "invalid",
                                !.response = "400"]]
    /\ rec' = IF valid THEN rec ELSE [rec EXCEPT ![u] = UpsertPending(@, r)]
    /\ UNCHANGED <<maxRetriesCfg, delayCfg, envOk, client, hadReset, br>>

\* the handler has read the form data of a delivery
PostReceive(r, u, valid) ==
    /\ NextToStart(r)
    /\ req' = [req EXCEPT ![r] =
                 IF valid
                 THEN [@ EXCEPT !.kind = "webhook", !.uuid = u, !.tpc = "upserting"]
                 ELSE [@ EXCEPT !.kind = "webhook", !.tpc = "invalid",
                                !.response = "400"]]
    /\ UNCHANGED <<maxRetriesCfg, delayCfg, envOk, client, hadReset, br, rec>>

\* the message of the error getDeepgramClient throws
MissingEnvMessage == "Missing required Deepgram environment variable: DEEPGRAM_API_KEY"

\* an idempotent handler: no task for a call identifier that has a record
UpsertDoneSkipsDuplicate(r, ok) ==
    /\ req[r].tpc = "upserting"
    /\ rec' = IF ok THEN [rec EXCEPT ![req[r].uuid] = UpsertPending(@, r)] ELSE rec
    /\ LET q == [req[r] EXCEPT !.breaker = BreakerOf("transcribeRecording"),
                               !.projects = ProjectsResult("transcribeRecording"),
                               !.response = "ack",
                               !.tpc = "transcribing",
                               !.writeErr = ~ok]
       IN  IF rec[req[r].uuid].transcription_status # Absent
           THEN /\ req' = [req EXCEPT ![r] = [q EXCEPT !.tpc = "done"]]
                /\ UNCHANGED <<br, client>>
           ELSE IF CanGet("deepgram")
           THEN LET res == FireResult(q, br["transcribe"]) IN
                /\ br' = [br EXCEPT !["transcribe"] = res.b]
                /\ req' = [req EXCEPT ![r] = res.rq]
                /\ client' = [client EXCEPT !["deepgram"] = "live"]
           ELSE /\ req' = [req EXCEPT ![r] =
                             [q EXCEPT !.tpc = "writingFailed", !.nFailed = @ + 1,
                                       !.terr = MissingEnvMessage]]
                /\ UNCHANGED <<br, client>>
    /\ UNCHANGED <<maxRetriesCfg, delayCfg, envOk, hadReset>>

\* a handler that awaits the transcription task before it responds
UpsertDoneAwaitsTask(r, ok) ==
    /\ req[r].tpc = "upserting"
    /\ rec' = IF ok THEN [rec EXCEPT ![req[r].uuid] = UpsertPending(@, r)] ELSE rec
    /\ LET q == [req[r] EXCEPT !.breaker = BreakerOf("transcribeRecording"),
                               !.projects = ProjectsResult("transcribeRecording"),
                               !.tpc = "transcribing",
                               !.writeErr = ~ok]
       IN  IF CanGet("deepgram")
           THEN LET res == FireResult(q, br["transcribe"]) IN
                /\ br' = [br EXCEPT !["transcribe"] = res.b]
                /\ req' = [req EXCEPT ![r] = res.rq]
                /\ client' = [client EXCEPT !["deepgram"] = "live"]
           ELSE /\ req' = [req EXCEPT ![r] =
                             [q EXCEPT !.tpc = "writingFailed", !.nFailed = @ + 1,
                                       !.terr = MissingEnvMessage]]
                /\ UNCHANGED <<br, client>>
    /\ UNCHANGED <<maxRetriesCfg, delayCfg, envOk, hadReset>>

\* the upsert of the pending record returns; the handler starts
\* transcribeRecordingAsync without awaiting it and acknowledges
UpsertDone(r, ok) ==
    /\ req[r].tpc = "upserting"
    /\ rec' = IF ok THEN [rec EXCEPT ![req[r].uuid] = UpsertPending(@, r)] ELSE rec
    /\ LET q == [req[r] EXCEPT !.breaker = BreakerOf("transcribeRecording"),
                               !.projects = ProjectsResult("transcribeRecording"),
                               !.response = "ack",
                               !.tpc = "transcribing",
                               !.writeErr = ~ok]
       IN  IF CanGet("deepgram")
           THEN LET res == FireResult(q, br["transcribe"]) IN
                /\ br' = [br EXCEPT !["transcribe"] = res.b]
                /\ req' = [req EXCEPT ![r] = res.rq]
                /\ client' = [client EXCEPT !["deepgram"] = "live"]
           ELSE /\ req' = [req EXCEPT ![r] =
                             [q EXCEPT !.tpc = "writingFailed", !.nFailed = @ + 1,
                                       !.terr = MissingEnvMessage]]
                /\ UNCHANGED <<br, client>>
    /\ UNCHANGED <<maxRetriesCfg, delayCfg, envOk, hadReset>>

\* a task that fails after its 'completed' write has succeeded
CompletedWriteDoneThenFails(r, ok) ==
    /\ req[r].tpc = "writingCompleted"
    /\ rec' = IF ok THEN [rec EXCEPT ![req[r].uuid] = UpdateCompleted(@, req[r].env.data, r)]
              ELSE rec
    /\ req' = [req EXCEPT ![r] =
                 [@ EXCEPT !.tpc = "writingFailed", !.nFailed = @ + 1,
                           !.writeErr = ~ok, !.terr = "updateError",
                           !.wrote = IF ok THEN "completed" ELSE @]]
    /\ UNCHANGED <<maxRetriesCfg, delayCfg, envOk, client, hadReset, br>>

\* a 'completed' update without its .eq('call_uuid', ...) filter
CompletedWriteDoneUnfiltered(r, ok) ==
    /\ req[r].tpc = "writingCompleted"
    /\ IF ok
       THEN /\ rec' = [u \in Uuids |-> UpdateCompleted(rec[u], req[r].env.data, r)]
            /\ req' = [req EXCEPT ![r] = [@ EXCEPT !.tpc = "done", !.wrote = "completed"]]
       ELSE /\ rec' = rec
            /\ req' = [req EXCEPT ![r] =
                         [@ EXCEPT !.tpc = "writingFailed", !.nFailed = @ + 1,
                                   !.writeErr = TRUE, !.terr = "updateError"]]
    /\ UNCHANGED <<maxRetriesCfg, delayCfg, envOk, client, hadReset, br>>

\* the update that marks the record 'completed' returns
CompletedWriteDone(r, ok) ==
    /\ req[r].tpc = "writingCompleted"
    /\ IF ok
       THEN /\ rec' = [rec EXCEPT ![req[r].uuid] = UpdateCompleted(@, req[r].env.data, r)]
            /\ req' = [req EXCEPT ![r] = [@ EXCEPT !.tpc = "done", !.wrote = "completed"]]
       ELSE /\ rec' = rec
            /\ req' = [req EXCEPT ![r] =
                         [@ EXCEPT !.tpc = "writingFailed", !.nFailed = @ + 1,
                                   !.writeErr = TRUE, !.terr = "updateError"]]
    /\ UNCHANGED <<maxRetriesCfg, delayCfg, envOk, client, hadReset, br>>

\* a task awaited inside the handler's try block: an exception of the
\* 'failed' write reaches the handler's catch and becomes the response
FailedWriteDoneAnswers500(r, outcome) ==
    /\ req[r].tpc = "writingFailed"
    /\ IF outcome = "ok"
       THEN /\ rec' = [rec EXCEPT ![req[r].uuid] = UpdateFailed(@, req[r].terr, r)]
            /\ req' = [req EXCEPT ![r] = [@ EXCEPT !.tpc = "done", !.wrote = "failed"]]
       ELSE /\ rec' = rec
            /\ req' = [req EXCEPT ![r] =
                         [@ EXCEPT !.tpc = "done", !.writeErr = TRUE,
                                   !.escaped = (outcome = "throw"),
                                   !.response = IF outcome = "throw" THEN "500" ELSE @]]
    /\ UNCHANGED <<maxRetriesCfg, delayCfg, envOk, client, hadReset, br>>

\* a 'failed' write that is tried again when it reports an error
FailedWriteDoneRetries(r, outcome) ==
    /\ req[r].tpc = "writingFailed"
    /\ IF outcome = "ok"
       THEN /\ rec' = [rec EXCEPT ![req[r].uuid] = UpdateFailed(@, req[r].terr, r)]
            /\ req' = [req EXCEPT ![r] = [@ EXCEPT !.tpc = "done", !.wrote = "failed"]]
       ELSE /\ rec' = rec
            /\ req' = [req EXCEPT ![r] =
                         [@ EXCEPT !.writeErr = TRUE, !.nFailed = @ + 1]]
    /\ UNCHANGED <<maxRetriesCfg, delayCfg, envOk, client, hadReset, br>>

\* the update that marks the record 'failed' returns (its result is not
\* looked at) or throws (caught by the .catch the handler attached)
FailedWriteDone(r, outcome) ==
    /\ req[r].tpc = "writingFailed"
    /\ IF outcome = "ok"
       THEN /\ rec' = [rec EXCEPT ![req[r].uuid] = UpdateFailed(@, req[r].terr, r)]
            /\ req' = [req EXCEPT ![r] = [@ EXCEPT !.tpc = "done", !.wrote = "failed"]]
       ELSE /\ rec' = rec
            /\ req' = [req EXCEPT ![r] =
                         [@ EXCEPT !.tpc = "done", !.writeErr = TRUE,
                                   !.escaped = (outcome = "throw")]]
    /\ UNCHANGED <<maxRetriesCfg, delayCfg, envOk, client, hadReset, br>>

\* callers of the facade operations, the breakers' timers, resetClients
Next ==
    \/ \E r \in Callers, op \in BreakerOps : ApiFire(r, op)
    \/ \E r \in Callers, op \in BreakerOps : FireStale(r, op)
    \/ \E r \in Reqs, v \in Values : DelegateResolve(r, v)
    \/ \E r \in Reqs, e \in DelegateErrors : DelegateReject(r, e)
    \/ \E r \in Reqs : SleepDone(r)
    \/ \E r \in Reqs : BreakerTimeout(r)
    \/ \E n \in BreakerNames : ResetTimer(n)
    \/ \E n \in BreakerNames : RollWindow(n)
    \/ ResetClients

Spec == Init /\ [][Next]_vars

\* ------------------------------------------------ waitForRecording: polls
\* what PlivoManager.waitForRecording returns when a poll finds the recording
CallDetails == "details"

\* the error the facade's operation throws when the manager returns null
NotAvailableMessage == "Recording not available after maximum attempts"

\* a call of PlivoResilient.waitForRecording whose delegate is polling
Polling(rq) ==
    /\ rq.kind = "api" /\ ~Wrapped(rq) /\ ~rq.projects
    /\ rq.fpc = "waiting" /\ rq.lpc = "inflight"

\* loop index i of PlivoManager.waitForRecording in the current attempt:
\* the polls made so far by this invocation of the manager
PollIndex(rq) ==
    Cardinality({k \in DOMAIN rq.polls : rq.polls[k].attempt = rq.attempt})

\* getCallDetails has been invoked once more, with this outcome
Polled(rq, outcome) ==
    [rq EXCEPT !.polls = Append(@, [attempt |-> rq.attempt, outcome |-> outcome])]

\* the operation handed to executeWithRetry has thrown e: sleep and retry,
\* or rethrow to the catch block of waitForRecording, which returns null
OperationFailed(rq, e) ==
    LET q == [rq EXCEPT !.err = e, !.nRej = @ + 1] IN
    IF rq.attempt < EffectiveMaxRetries
    THEN [q EXCEPT !.lpc = "sleeping", !.sleeps = @ + 1,
                   !.delays = Append(@, ComputeDelay("plivo", rq.attempt))]
    ELSE PlainCatch([q EXCEPT !.lpc = "exhausted"], e)

\* getCallDetails resolves: with call_status 'completed' and a recording_url
\* (ready) the manager returns the details, otherwise it waits delayMs and
\* goes round its loop
GetCallDetailsResolve(r, ready) ==
    /\ Polling(req[r])
    /\ PollIndex(req[r]) < req[r].maxAttempts
    /\ req' = [req EXCEPT ![r] =
                 IF ready
                 THEN PlainSuccessReturn(
                          [Polled(@, "ready") EXCEPT !.lpc = "ok", !.err = Absent,
                                                     !.val = CallDetails],
                          CallDetails)
                 ELSE Polled(@, "pending")]
    /\ UNCHANGED <<maxRetriesCfg, delayCfg, envOk, client, hadReset, br, rec>>

\* getCallDetails rejects: the manager's loop does not catch it
GetCallDetailsReject(r, e) ==
    /\ Polling(req[r])
    /\ PollIndex(req[r]) < req[r].maxAttempts
    /\ req' = [req EXCEPT ![r] = OperationFailed(Polled(@, "error"), e)]
    /\ UNCHANGED <<maxRetriesCfg, delayCfg, envOk, client, hadReset, br, rec>>

\* the manager's loop has run maxAttempts times: it returns null and the
\* operation throws
PollsExhausted(r) ==
    /\ Polling(req[r])
    /\ PollIndex(req[r]) >= req[r].maxAttempts
    /\ req' = [req EXCEPT ![r] = OperationFailed(@, NotAvailableMessage)]
    /\ UNCHANGED <<maxRetriesCfg, delayCfg, envOk, client, hadReset, br, rec>>

\* the retry engine under every configured maxRetries, one call at a time
InitRetry ==
    /\ maxRetriesCfg \in 0..MaxRetriesCfg
    /\ delayCfg = ClientsDelayCfg
    /\ envOk = [f \in Facades |-> TRUE]
    /\ client = [f \in Facades |-> "none"]
    /\ hadReset = [f \in Facades |-> FALSE]
    /\ br = [n \in BreakerNames |-> FreshBreaker]
    /\ req = [r \in Reqs |-> IdleReq]
    /\ rec = [u \in Uuids |-> NoRecord]

Sequential(r) == \A p \in Reqs : p # r => req[p].lpc \notin {"inflight", "sleeping"}

NextRetry ==
    \/ \E r \in Callers, op \in BreakerOps : Sequential(r) /\ ApiFire(r, op)
    \/ \E r \in Reqs, v \in Values : DelegateResolve(r, v)
    \/ \E r \in Reqs, e \in DelegateErrors : DelegateReject(r, e)
    \/ \E r \in Reqs : SleepDone(r)
    \/ \E r \in Reqs : BreakerTimeout(r)
    \/ \E n \in BreakerNames : ResetTimer(n)

SpecRetry == InitRetry /\ [][NextRetry]_vars

\* the timer of the breaker's request timeout fires once its time has
\* passed; nothing is assumed of the delegate or of the backoff timers
FairnessTimeout == \A r \in Reqs : WF_vars(BreakerTimeout(r))

SpecRetryFair == InitRetry /\ [][NextRetry]_vars /\ FairnessTimeout

\* every public operation of the two facades that reaches the external API,
\* one call at a time
NextFacade ==
    \/ \E r \in Callers, op \in BreakerOps : Sequential(r) /\ ApiFire(r, op)
    \/ \E r \in Callers, op \in PlainOps : Sequential(r) /\ PlainFire(r, op)
    \/ \E r \in Reqs, v \in Values : DelegateResolve(r, v)
    \/ \E r \in Reqs, e \in DelegateErrors : DelegateReject(r, e)
    \/ \E r \in Reqs : SleepDone(r)
    \/ \E r \in Reqs : BreakerTimeout(r)
    \/ \E n \in BreakerNames : ResetTimer(n)

SpecFacade == InitRetry /\ [][NextFacade]_vars

\* callers that will pass any maxAttempts, under every configured maxRetries
InitPoll ==
    /\ maxRetriesCfg \in 0..MaxRetriesCfg
    /\ delayCfg = ClientsDelayCfg
    /\ envOk = [f \in Facades |-> TRUE]
    /\ client = [f \in Facades |-> "none"]
    /\ hadReset = [f \in Facades |-> FALSE]
    /\ br = [n \in BreakerNames |-> FreshBreaker]
    /\ req \in [Reqs -> {[IdleReq EXCEPT !.maxAttempts = m] : m \in 0..MaxPollAttempts}]
    /\ \A r \in Reqs \ Callers : req[r] = IdleReq
    /\ rec = [u \in Uuids |-> NoRecord]

\* calls of waitForRecording on the Plivo singleton, one at a time
NextPoll ==
    \/ \E r \in Callers : Sequential(r) /\ PlainFire(r, "waitForRecording")
    \/ \E r \in Reqs, ready \in BOOLEAN : GetCallDetailsResolve(r, ready)
    \/ \E r \in Reqs, e \in DelegateErrors : GetCallDetailsReject(r, e)
    \/ \E r \in Reqs : PollsExhausted(r)
    \/ \E r \in Reqs : SleepDone(r)

SpecPoll == InitPoll /\ [][NextPoll]_vars

\* ------------------------------------------- the get functions' validation
\* the message of the error getPlivoClient throws
MissingPlivoEnvMessage ==
    "Missing required Plivo environment variables: PLIVO_AUTH_ID, PLIVO_AUTH_TOKEN, PLIVO_PHONE_NUMBER, APP_BASE_URL"

MissingEnvMessageOf(f) ==
    IF f = "plivo" THEN MissingPlivoEnvMessage ELSE MissingEnvMessage

\* a get function that assigns the singleton before it validates
GetClientThrowsCached(r, f) ==
    /\ NextToStart(r)
    /\ ~CanGet(f)
    /\ req' = [req EXCEPT ![r] =
                 [@ EXCEPT !.kind = "get", !.fpc = "threw",
                           !.err = MissingEnvMessageOf(f)]]
    /\ client' = [client EXCEPT ![f] = "live"]
    /\ UNCHANGED <<maxRetriesCfg, delayCfg, envOk, hadReset, br, rec>>

\* a caller calls getPlivoClient / getDeepgramClient while no instance
\* exists and a required environment value is missing: the function throws
\* before it constructs anything
GetClientThrows(r, f) ==
    /\ NextToStart(r)
    /\ ~CanGet(f)
    /\ req' = [req EXCEPT ![r] =
                 [@ EXCEPT !.kind = "get", !.fpc = "threw",
                           !.err = MissingEnvMessageOf(f)]]
    /\ UNCHANGED <<maxRetriesCfg, delayCfg, envOk, client, hadReset, br, rec>>

\* a deployment whose environment may lack the values of either facade
InitEnv ==
    /\ maxRetriesCfg \in 1..MaxRetriesCfg
    /\ delayCfg = ClientsDelayCfg
    /\ envOk \in [Facades -> BOOLEAN]
    /\ client = [f \in Facades |-> "none"]
    /\ hadReset = [f \in Facades |-> FALSE]
    /\ br = [n \in BreakerNames |-> FreshBreaker]
    /\ req = [r \in Reqs |-> IdleReq]
    /\ rec = [u \in Uuids |-> NoRecord]

\* callers of the get functions and of the operations of what they return,
\* resetClients, and an operator who completes the environment
NextEnv ==
    \/ \E r \in Callers, f \in Facades : GetClientThrows(r, f)
    \/ \E r \in Callers, op \in BreakerOps : ApiFire(r, op)
    \/ \E r \in Reqs, v \in Values : DelegateResolve(r, v)
    \/ \E r \in Reqs, e \in DelegateErrors : DelegateReject(r, e)
    \/ \E r \in Reqs : SleepDone(r)
    \/ \E r \in Reqs : BreakerTimeout(r)
    \/ \E f \in Facades : SetEnv(f)
    \/ ResetClients

SpecEnv == InitEnv /\ [][NextEnv]_vars

\* calls on the breakers of both facades, their reset timers and an
\* operator who calls resetCircuitBreakers at any moment
NextReset ==
    \/ \E r \in Callers, op \in BreakerOps : ApiFire(r, op)
    \/ \E r \in Reqs, v \in Values : DelegateResolve(r, v)
    \/ \E r \in Reqs, e \in DelegateErrors : DelegateReject(r, e)
    \/ \E r \in Reqs : SleepDone(r)
    \/ \E r \in Reqs : BreakerTimeout(r)
    \/ \E n \in BreakerNames : ResetTimer(n)
    \/ \E f \in Facades : ResetCircuitBreakers(f)

SpecReset == Init /\ [][NextReset]_vars

\* the backoff schedule: one call on a facade constructed with any backoff
\* configuration, a value of 0 included, and any configured maxRetries
InitBackoff ==
    /\ maxRetriesCfg \in 0..MaxRetriesCfg
    /\ \E c \in DelayCfgs : delayCfg = [f \in Facades |-> c]
    /\ envOk = [f \in Facades |-> TRUE]
    /\ client = [f \in Facades |-> "none"]
    /\ hadReset = [f \in Facades |-> FALSE]
    /\ br = [n \in BreakerNames |-> FreshBreaker]
    /\ req = [r \in Reqs |-> IdleReq]
    /\ rec = [u \in Uuids |-> NoRecord]

NextBackoff ==
    \/ \E op \in {"makeCall", "transcribeRecording"} : ApiFire(1, op)
    \/ \E v \in Values : DelegateResolve(1, v)
    \/ \E e \in DelegateErrors : DelegateReject(1, e)
    \/ SleepDone(1)
    \/ BreakerTimeout(1)

SpecBackoff == InitBackoff /\ [][NextBackoff]_vars

\* the recording webhook: every request is a delivery; the Deepgram
\* environment value may be missing at first
InitWebhook ==
    /\ maxRetriesCfg \in 1..MaxRetriesCfg
    /\ delayCfg = ClientsDelayCfg
    /\ envOk \in [Facades -> BOOLEAN]
    /\ envOk["plivo"]
    /\ client = [f \in Facades |-> "none"]
    /\ hadReset = [f \in Facades |-> FALSE]
    /\ br = [n \in BreakerNames |-> FreshBreaker]
    /\ req = [r \in Reqs |-> IdleReq]
    /\ rec = [u \in Uuids |-> NoRecord]

\* a retry loop whose breaker call has timed out goes on in the background,
\* where it changes neither the breaker, the task nor the store: the webhook
\* specification does not follow it
Foreground(r) == ~req[r].timedOut

NextWebhook ==
    \/ \E r \in Callers, u \in Uuids, valid \in BOOLEAN : PostReceive(r, u, valid)
    \/ \E r \in Reqs, ok \in BOOLEAN : UpsertDone(r, ok)
    \/ \E r \in Reqs, v \in Values : Foreground(r) /\ DelegateResolve(r, v)
    \/ \E r \in Reqs, e \in DelegateErrors : Foreground(r) /\ DelegateReject(r, e)
    \/ \E r \in Reqs : Foreground(r) /\ SleepDone(r)
    \/ \E r \in Reqs : BreakerTimeout(r)
    \/ ResetTimer("transcribe")
    \/ \E r \in Reqs, ok \in BOOLEAN : CompletedWriteDone(r, ok)
    \/ \E r \in Reqs, outcome \in {"ok", "error", "throw"} : FailedWriteDone(r, outcome)
    \/ SetEnv("deepgram")

SpecWebhook == InitWebhook /\ [][NextWebhook]_vars

\* timers fire and requests to the datastore return: the breaker's request
\* timeout, and each terminal write of a task
FairnessWebhook ==
    \A r \in Reqs :
        /\ WF_vars(BreakerTimeout(r))
        /\ WF_vars(\E ok \in BOOLEAN : CompletedWriteDone(r, ok))
        /\ WF_vars(\E outcome \in {"ok", "error", "throw"} : FailedWriteDone(r, outcome))

SpecWebhookFair == InitWebhook /\ [][NextWebhook]_vars /\ FairnessWebhook

\* the half-open scenario: calls of one operation on one breaker, enough of
\* them for two to open the breaker, one to be in its retry loop meanwhile
\* and one to be the trial
NextTrial ==
    \/ \E r \in Reqs : ApiFire(r, "transcribeRecording")
    \/ \E r \in Reqs, v \in Values : Foreground(r) /\ DelegateResolve(r, v)
    \/ \E r \in Reqs, e \in DelegateErrors : Foreground(r) /\ DelegateReject(r, e)
    \/ \E r \in Reqs : Foreground(r) /\ SleepDone(r)
    \/ \E r \in Reqs : BreakerTimeout(r)
    \/ ResetTimer("transcribe")

SpecTrial == Init /\ [][NextTrial]_vars

\* ================================================================ claims

\* C1: a breaker-wrapped facade operation never throws or rejects: whatever
\* the delegate does (resolve, reject, hang until the breaker timeout) and
\* whatever state the breaker is in (closed, open, half-open, shut down), a
\* call that is no longer waiting for its breaker has returned an envelope
\* whose success is true or false.
C1_NeverThrows ==
    \A r \in Reqs :
        /\ req[r].fpc \in {"idle", "waiting", "returned"}
        /\ req[r].fpc = "returned" =>
              req[r].env.made /\ req[r].env.success \in BOOLEAN
        /\ req[r].fpc = "waiting" =>
              ~req[r].timedOut /\ req[r].lpc \in {"inflight", "sleeping"}
        /\ req[r].fpc = "idle" => req[r].lpc = "none"

\* a call failed by the breaker timeout and a call on a shut-down breaker
C1_Witness ==
    \E a, b \in Reqs :
        /\ req[a].fpc = "returned" /\ req[a].env.error = "ETIMEDOUT"
        /\ req[b].fpc = "returned" /\ req[b].env.error = "ESHUTDOWN"

\* C2: one logical facade call is one sample of its breaker's rolling
\* window, however many attempts its retry loop makes: at most one 'fire'
\* and at most one of 'success'/'failure' are counted for it; a call that
\* returns success (after any number of failed attempts) is counted as one
\* success and no failure, and a call that exhausts its attempts as exactly
\* one failure and no success.  (A breaker shut down while the call was
\* waiting for it has no rolling window left.)
C2_OneSamplePerCall ==
    \A r \in Reqs :
        /\ req[r].cFires <= 1
        /\ req[r].cSucc + req[r].cFail <= 1
        /\ (req[r].fpc = "returned" /\ req[r].invoked >= 1 /\ ~req[r].orphaned) =>
              req[r].cFires = 1 /\ req[r].cSucc + req[r].cFail = 1
        /\ (req[r].fpc = "returned" /\ req[r].env.success /\ ~req[r].orphaned) =>
              req[r].cSucc = 1 /\ req[r].cFail = 0
        /\ (req[r].lpc = "exhausted" /\ ~req[r].orphaned) =>
              req[r].cSucc = 0 /\ req[r].cFail = 1

\* one call succeeded after a failed attempt, another exhausted its attempts
C2_Witness ==
    \E a, b \in Reqs :
        /\ req[a].fpc = "returned" /\ req[a].env.success /\ req[a].nRej >= 1
        /\ req[a].cSucc = 1 /\ ~req[a].orphaned
        /\ req[b].lpc = "exhausted" /\ ~req[b].timedOut /\ ~req[b].orphaned
        /\ req[b].nRej >= 2

\* C3 as claimed: while a breaker is open, the invocation count of the
\* delegate it guards does not increase, calls that were already in their
\* retry loop when the breaker opened included.
C3_NoInvocationWhileOpen ==
    [][\A r \in Reqs :
          (/\ req'[r].breaker \in BreakerNames
           /\ ~req'[r].stale
           /\ Opened(br[req'[r].breaker])
           /\ Opened(br'[req'[r].breaker]))
          => req'[r].invoked = req[r].invoked]_vars

\* C3 as amended: while a breaker is open, the only invocations of the
\* delegate it guards are retry attempts of calls that the breaker admitted
\* before it opened; no call started while it is open invokes the delegate.
C3_OnlyAdmittedRetriesWhileOpen ==
    [][\A r \in Reqs :
          (/\ req'[r].breaker \in BreakerNames
           /\ ~req'[r].stale
           /\ Opened(br[req'[r].breaker])
           /\ req'[r].invoked # req[r].invoked)
          => /\ req[r].lpc = "sleeping"
             /\ req[r].admit \in {"closed", "halfOpen"}
             /\ req'[r].invoked = req[r].invoked + 1]_vars

\* a call in its retry loop has invoked the delegate while the breaker was open
C3_Witness ==
    \E r \in Reqs : req[r].invOpen > 0 /\ req[r].admit = "closed"

\* C4: a facade call made on a breaker that is already open returns a
\* success:false envelope, with no invocation of the delegate and no retry
\* delay slept for that call.
C4_OpenRejectsAtOnce ==
    \A r \in Reqs :
        req[r].admit = "open" =>
            /\ req[r].fpc = "returned"
            /\ ~req[r].env.success
            /\ req[r].env.error = "EOPENBREAKER"
            /\ req[r].invoked = 0
            /\ req[r].sleeps = 0
            /\ req[r].lpc = "none"

\* a call was made on an open breaker
C4_Witness ==
    \E r \in Reqs : req[r].admit = "open" /\ req[r].fpc = "returned"

\* C5: a delegate that rejects its first k invocations and then resolves is
\* invoked exactly k+1 times and never again; the facade (whose breaker has
\* passed the result on) returns success:true with the resolved value as data
\* and retryCount = k+1.
C5_RetryThenSuccess ==
    \A r \in Reqs :
        req[r].lpc = "ok" =>
            /\ req[r].invoked = req[r].nRej + 1
            /\ req[r].nRej <= EffectiveMaxRetries
            /\ (~req[r].timedOut /\ ~(req[r].projects /\ req[r].val = Undef)) =>
                  /\ req[r].fpc = "returned"
                  /\ req[r].env.success
                  /\ req[r].env.data = req[r].val
                  /\ req[r].env.retryCount = req[r].nRej + 1

\* a call succeeded at its last allowed attempt, k = maxRetries >= 1
C5_Witness ==
    \E r \in Reqs :
        /\ req[r].lpc = "ok" /\ ~req[r].timedOut
        /\ req[r].nRej = maxRetriesCfg /\ maxRetriesCfg >= 1
        /\ req[r].env.success /\ req[r].env.data \in {"t1", "t2"}

\* C6 as claimed: for every configured maxRetries >= 0, a delegate that
\* rejects on every invocation is invoked exactly maxRetries + 1 times, and
\* the call then fails with the error of the last invocation.
C6_ExhaustsAfterMaxRetriesPlusOne ==
    \A r \in Reqs :
        req[r].lpc = "exhausted" =>
            /\ req[r].invoked = maxRetriesCfg + 1
            /\ ~req[r].timedOut =>
                  ~req[r].env.success /\ req[r].env.error \in DelegateErrors

\* ------------------------------------------------ the recording webhook
TaskStarted(r) == req[r].tpc \in {"transcribing", "writingCompleted", "writingFailed"}

Terminal(u) == rec[u].transcription_status \in {"completed", "failed"}

\* the facade returned success:true with data to the task of delivery r
GotData(r) ==
    req[r].env.made /\ req[r].env.success /\ req[r].env.data \notin {Absent, Undef}

\* C7: once the handler has started the transcription task of a delivery,
\* the task eventually ends and, unless one of its storage writes failed,
\* the stored record of its call identifier has then left 'pending' for
\* 'completed' or 'failed' -- whether the facade succeeds, exhausts its
\* retries, times out or is rejected by an open circuit.
C7_EventuallyTerminal ==
    \A r \in Reqs :
        TaskStarted(r) ~>
            (/\ req[r].tpc = "done"
             /\ (req[r].writeErr \/ Terminal(req[r].uuid)))

\* a task whose facade call timed out has stored 'failed'
C7_Witness ==
    \E r \in Reqs :
        /\ req[r].tpc = "done" /\ ~req[r].writeErr
        /\ req[r].env.error = "ETIMEDOUT"
        /\ rec[req[r].uuid].writer = r
        /\ rec[req[r].uuid].transcription_status = "failed"

\* C8 as claimed: the task of a delivery attempts exactly one terminal
\* status write, 'completed' or 'failed', never both and never a second one,
\* also when the terminal write itself reports an error.
C8_ExactlyOneTerminalWrite ==
    \A r \in Reqs :
        /\ req[r].nCompleted + req[r].nFailed <= 1
        /\ (req[r].tpc = "done" /\ req[r].response = "ack") =>
              req[r].nCompleted + req[r].nFailed = 1

\* C8 as amended: the task attempts at most one 'completed' write and at
\* most one 'failed' write, and at least one of them; it attempts both only
\* when the 'completed' write reported an error, the 'failed' write being
\* the second; a 'failed' write is never attempted twice, whatever it reports.
C8_OneWriteOfEachKind ==
    \A r \in Reqs :
        /\ req[r].nCompleted <= 1
        /\ req[r].nFailed <= 1
        /\ (req[r].tpc = "done" /\ req[r].response = "ack") =>
              req[r].nCompleted + req[r].nFailed >= 1
        /\ req[r].nCompleted + req[r].nFailed = 2 =>
              /\ req[r].terr = "updateError"
              /\ req[r].tpc \in {"writingFailed", "done"}
              /\ req[r].wrote # "completed"
        /\ req[r].tpc = "writingCompleted" => req[r].nFailed = 0

\* a task whose 'completed' write reported an error went on to a 'failed' write
C8_Witness ==
    \E r \in Reqs :
        req[r].tpc = "done" /\ req[r].nCompleted = 1 /\ req[r].nFailed = 1

\* C9: when the facade returned success:true with data to the task of a
\* delivery and the storage writes of that delivery succeeded, the task has
\* written 'completed' and nothing else, and the record it wrote has
\* transcription_status 'completed' and the transcript, confidence and word
\* count that the delegate returned.
C9_CompletedHasResult ==
    \A r \in Reqs :
        (req[r].tpc = "done" /\ GotData(r) /\ ~req[r].writeErr) =>
            /\ req[r].wrote = "completed"
            /\ req[r].nFailed = 0
            /\ req[r].env.data = req[r].val
            /\ rec[req[r].uuid].writer = r =>
                  /\ rec[req[r].uuid].transcription_status = "completed"
                  /\ rec[req[r].uuid].transcript = Transcript(req[r].val)
                  /\ rec[req[r].uuid].transcription_confidence = Confidence(req[r].val)
                  /\ rec[req[r].uuid].word_count = WordCount(req[r].val)

\* a delivery whose transcription succeeded at the second attempt is stored
C9_Witness ==
    \E r \in Reqs :
        /\ req[r].tpc = "done" /\ GotData(r) /\ ~req[r].writeErr
        /\ req[r].nRej >= 1
        /\ rec[req[r].uuid].writer = r
        /\ rec[req[r].uuid].word_count = 2

\* C10: when the facade did not return success:true with data to the task
\* of a delivery (the delegate rejected every attempt, the breaker timed out
\* or was open, or success came without data), the task never attempts the
\* 'completed' write; it writes 'failed', and the record it wrote (the
\* storage writes of the delivery succeeding) has transcription_status
\* 'failed' and a non-empty transcription_error.
C10_FailureIsRecorded ==
    \A r \in Reqs :
        (req[r].env.made /\ ~GotData(r)) =>
            /\ req[r].nCompleted = 0
            /\ req[r].wrote # "completed"
            /\ req[r].kind = "webhook" => req[r].tpc \in {"writingFailed", "done"}
            /\ (req[r].tpc = "done" /\ ~req[r].writeErr) =>
                  /\ req[r].wrote = "failed"
                  /\ req[r].terr \notin {Absent, ""}
                  /\ rec[req[r].uuid].writer = r =>
                        /\ rec[req[r].uuid].transcription_status = "failed"
                        /\ rec[req[r].uuid].transcription_error = req[r].terr

\* a delegate that rejected every attempt, the last time with an error
\* without message: the record is 'failed' with the fallback message
C10_Witness ==
    \E r \in Reqs :
        /\ req[r].tpc = "done" /\ ~req[r].writeErr
        /\ req[r].lpc = "exhausted" /\ req[r].env.error = ""
        /\ rec[req[r].uuid].writer = r
        /\ rec[req[r].uuid].transcription_status = "failed"
        /\ rec[req[r].uuid].transcription_error = "Transcription failed"

\* C11: every valid delivery (RecordingUrl and CallUUID present) is
\* acknowledged in the turn in which the handler starts the transcription
\* task, before the task has gone past its first await; the response is the
\* success acknowledgment whatever the task does then (success, failure,
\* circuit-open rejection) and is never changed afterwards.
C11_AckBeforeOutcome ==
    /\ [](\A r \in Reqs :
            (req[r].kind = "webhook" /\ req[r].tpc \notin {"none", "upserting", "invalid"})
                => req[r].response = "ack")
    /\ [][\A r \in Reqs :
            /\ req[r].response = "ack" => req'[r].response = "ack"
            /\ (req'[r].response = "ack" /\ req[r].response # "ack")
                   => req[r].tpc = "upserting"]_vars

\* two acknowledged deliveries: the transcription of one timed out, that
\* of the other was rejected by the open circuit
C11_Witness ==
    \E a, b \in Reqs :
        /\ req[a].response = "ack" /\ req[a].tpc = "done"
        /\ req[a].env.error = "ETIMEDOUT"
        /\ req[b].response = "ack" /\ req[b].tpc = "done"
        /\ req[b].env.error = "EOPENBREAKER"

\* C12 as claimed: a closed breaker becomes open as soon as a failure
\* brings the error percentage over its rolling window to
\* errorThresholdPercentage or more (5 failures among 10 samples with a
\* threshold of 50).
C12_OpensAtThreshold ==
    [][\A n \in BreakerNames :
          (/\ br[n].state = "closed"
           /\ br'[n].state \in {"closed", "open"}
           /\ Stat(br'[n], "failures") = Stat(br[n], "failures") + 1
           /\ Stat(br'[n], "failures") * 100
                 >= ErrorThresholdPercentage * Stat(br'[n], "fires"))
          => br'[n].state = "open"]_vars

\* the trial call of a half-open breaker: fired on it while half-open and
\* admitted (its delegate has been invoked)
IsTrial(q) ==
    /\ q.breaker \in BreakerNames
    /\ ~q.stale
    /\ q.admit = "halfOpen"
    /\ q.invoked >= 1

\* C13 as claimed: a half-open breaker admits exactly one trial call (the
\* call that finds the breaker waiting for its trial, after which no other
\* is admitted); when the trial, the whole retrying operation, succeeds the
\* breaker is closed, and when it fails the breaker is open again and admits
\* no call until a new resetTimeout has elapsed.
C13_TrialDecides ==
    [][\A r \in Reqs :
          IsTrial(req'[r]) =>
              LET n == req'[r].breaker IN
              /\ req[r].kind = "none" =>
                    /\ br[n].state = "halfOpen" /\ br[n].pendingClose
                    /\ br'[n].state = "halfOpen" /\ ~br'[n].pendingClose
              /\ req'[r].cSucc = req[r].cSucc + 1 => br'[n].state = "closed"
              /\ req'[r].cFail = req[r].cFail + 1 =>
                    br'[n].state = "open" /\ ~br'[n].pendingClose]_vars

\* C14 as claimed: a half-open breaker leaves the half-open state only in
\* the step in which the outcome (success or failure) of its admitted trial
\* call is counted; the completion of a call fired before the breaker
\* opened neither closes nor re-opens it.
C14_OnlyTrialDecides ==
    [][\A n \in BreakerNames :
          (/\ br[n].state = "halfOpen"
           /\ br'[n].state \in {"closed", "open"}
           /\ client'[IF n = "transcribe" THEN "deepgram" ELSE "plivo"] = "live")
          => \E r \in Reqs :
                /\ IsTrial(req[r])
                /\ req[r].breaker = n
                /\ req'[r].cSucc + req'[r].cFail
                      = req[r].cSucc + req[r].cFail + 1]_vars

\* C15: the breakers 'makeCall', 'getCallDetails' and 'transcribe' are
\* independent.  A step changes the state or the rolling statistics of at
\* most one breaker (resetClients, which replaces both facades, apart), and
\* that breaker is the one of the call that fired or settled in the step;
\* whether a new call is rejected depends on the state of its own breaker
\* only, so an open 'transcribe' breaker rejects no voice call.
C15_BreakersIndependent ==
    [][/\ \A n, m \in BreakerNames :
             (n # m /\ br'[n] # br[n] /\ br'[m] # br[m])
                 => (client # client' /\ client' = [f \in Facades |-> "none"])
       /\ \A n \in BreakerNames :
             (br'[n] # br[n] /\ req' # req /\ client' = client)
                 => \E r \in Reqs : req'[r] # req[r] /\ req'[r].breaker = n
       /\ \A r \in Reqs :
             (req[r].kind = "none" /\ req'[r].kind = "api" /\ ~req'[r].stale)
                 => LET n == req'[r].breaker
                        shut == br[n].state # "closed" /\ ~br[n].pendingClose
                    IN  /\ \A m \in BreakerNames \ {n} : br'[m] = br[m]
                        /\ req'[r].env.error = "EOPENBREAKER" <=> shut
                        /\ req'[r].invoked = 0 <=> shut]_vars

\* a failed transcription call has left the 'transcribe' breaker open; a
\* voice call started after it was admitted and has succeeded, and the
\* 'makeCall' breaker is closed without a failure in its statistics
C15_Witness ==
    \E q, r \in Reqs :
        /\ q < r
        /\ req[q].breaker = "transcribe" /\ req[q].cFail = 1
        /\ br["transcribe"].state = "open"
        /\ req[r].breaker = "makeCall" /\ req[r].admit = "closed"
        /\ req[r].fpc = "returned" /\ req[r].env.success
        /\ br["makeCall"].state = "closed"
        /\ Stat(br["makeCall"], "failures") = 0

C17_OpenReportedIffRejected ==
    \A r \in Reqs :
        (req[r].env.made /\ ~req[r].env.success /\ ~req[r].stale) =>
            /\ req[r].env.circuitBreakerState = "true" <=> req[r].invoked = 0
            /\ req[r].env.error = "EOPENBREAKER" <=> req[r].invoked = 0

\* C18 as claimed: the breaker timeout bounds one attempt, not the
\* retrying operation: it fails a call only while an attempt of the call is
\* in flight (never between attempts, when every attempt made has settled
\* within the timeout), and the call it fails is counted as one failure.
C18_TimeoutBoundsOneAttempt ==
    [][\A r \in Reqs :
          (~req[r].timedOut /\ req'[r].timedOut) =>
              /\ req[r].lpc = "inflight"
              /\ ~req[r].stale => req'[r].cFail = req[r].cFail + 1]_vars

\* configured backoff of the facade that serves request r
CfgOf(r) == delayCfg[FacadeOfBreaker(req[r].breaker)]

\* C19: the delay slept before retry i (zero-based) is
\* min(initialDelay * multiplier^i, maxDelay) of the configured values,
\* a configured value of 0 included
C19_DelayIsConfiguredSchedule ==
    \A r \in Reqs : \A i \in 1..Len(req[r].delays) :
        req[r].delays[i] =
            Min(CfgOf(r).retryDelay * Pow(CfgOf(r).retryMultiplier, i - 1),
                CfgOf(r).maxRetryDelay)

\* C20: for every configuration no slept delay exceeds the configured
\* maxDelay, and the delays of one call never decrease from one retry to
\* the next
C20_DelayBoundedAndMonotone ==
    \A r \in Reqs : \A i \in 1..Len(req[r].delays) :
        /\ req[r].delays[i] <= CfgOf(r).maxRetryDelay
        /\ i > 1 => req[r].delays[i - 1] <= req[r].delays[i]

\* delegate invocations of request r that have not settled yet
InFlight(q) == q.invoked - q.nRej - (IF q.lpc = "ok" THEN 1 ELSE 0)

\* C21: the attempts of one call are sequential (at most one delegate
\* invocation of the call is unsettled, and only while the loop awaits it);
\* between failed attempt i and attempt i+1 the loop sleeps exactly once, for
\* the delay computed for i; no delay is slept after the final failed attempt.
C21_OneSleepBetweenAttempts ==
    \A r \in Reqs : req[r].lpc # "none" =>
        /\ InFlight(req[r]) = (IF req[r].lpc = "inflight" THEN 1 ELSE 0)
        /\ req[r].sleeps = (IF req[r].lpc = "sleeping" THEN req[r].invoked
                                                       ELSE req[r].invoked - 1)
        /\ Len(req[r].delays) = req[r].sleeps
        /\ \A i \in 1..Len(req[r].delays) :
              req[r].delays[i] = ComputeDelay(FacadeOfBreaker(req[r].breaker), i - 1)
        /\ req[r].lpc = "exhausted" => req[r].nRej = req[r].sleeps + 1

\* a call that failed on every attempt after having slept between them
C21_Witness ==
    \E r \in Reqs : /\ req[r].lpc = "exhausted"
                    /\ req[r].sleeps >= 1
                    /\ req[r].invoked = req[r].sleeps + 1

\* a call of request r made with the default settings that lib/clients.ts
\* and the constructors give, rejected on every attempt
ExhaustedWithDefaults(r) ==
    /\ req[r].lpc = "exhausted"
    /\ EffectiveMaxRetries = DefaultMaxRetries
    /\ delayCfg = ClientsDelayCfg

OperationNames(q) ==
    {op \in BreakerOps : BreakerOf(op) = q.breaker /\ ProjectsResult(op) = q.projects}

\* the retry loop of q has failed on its last attempt and its caller, the
\* breaker, was still waiting for it
ExhaustedInTime(q) == q.lpc = "exhausted" /\ ~q.timedOut

\* C23 as stated: when the retry engine exhausts all attempts, the error it
\* fails with, which the facade puts in the envelope, is the last observed
\* delegate error annotated with the name of the operation retried.
C23_ErrorAnnotatedWithOperation ==
    \A r \in Reqs : ExhaustedInTime(req[r]) =>
        /\ req[r].env.error = Thrown(req[r].err).message
        /\ Thrown(req[r].err).operationName \in OperationNames(req[r])

\* C23 amended: the error the engine fails with is the last observed
\* delegate error as it was caught, with no operation name on it, and it is
\* the error of the failure envelope the facade returns; a call that the
\* breaker's timeout has failed before keeps the envelope of the timeout.
C23_LastErrorAsCaught ==
    \A r \in Reqs :
        /\ ExhaustedInTime(req[r]) =>
              /\ req[r].err \in DelegateErrors
              /\ req[r].fpc = "returned" /\ ~req[r].env.success
              /\ req[r].env.error = Thrown(req[r].err).message
              /\ Thrown(req[r].err).operationName = Absent
        /\ (req[r].lpc = "exhausted" /\ req[r].timedOut) =>
              req[r].env.error = "ETIMEDOUT"

\* a call exhausted after a retry whose first and last errors differ
C23_Witness ==
    \E r \in Reqs : /\ ExhaustedInTime(req[r])
                    /\ req[r].nRej >= 2
                    /\ req[r].env.error = "boom"

\* C24: every public operation that reaches the external API runs its
\* delegate inside breaker.fire: a call that has invoked its delegate was
\* admitted by a circuit breaker first, and once the call has returned its
\* final outcome has been counted by that breaker as one success or failure.
C24_EveryOperationBehindBreaker ==
    \A r \in Reqs : req[r].invoked > 0 =>
        /\ req[r].cFires = 1
        /\ req[r].admit \in {"closed", "halfOpen"}
        /\ req[r].fpc = "returned" => req[r].cSucc + req[r].cFail = 1

\* C25: resetCircuitBreakers leaves every breaker of its facade closed,
\* whatever state it was in and whatever its rolling window holds, and a
\* call that meets a closed breaker invokes its delegate: so does the next
\* call after a reset.
C25_ResetForcesClosed ==
    [][/\ \A f \in Facades : ResetCircuitBreakers(f) =>
             \A n \in BreakersOfFacade(f) :
                 br'[n].state = "closed" /\ ~br'[n].pendingClose
       /\ \A r \in Reqs :
             (/\ req[r].kind = "none" /\ req'[r].kind = "api"
              /\ Wrapped(req'[r]) /\ ~req'[r].stale
              /\ br[req'[r].breaker].state = "closed")
             => req'[r].invoked = 1 /\ req'[r].lpc = "inflight"]_vars

\* a breaker closed although every call in its window failed: both calls
\* were admitted by the closed circuit, the second one after a reset
C25_Witness ==
    \E n \in BreakerNames :
        /\ br[n].state = "closed"
        /\ Stat(br[n], "fires") = 2 /\ Stat(br[n], "failures") = 2
        /\ \A r \in Callers : /\ req[r].breaker = n
                               /\ req[r].admit = "closed"
                               /\ req[r].cFail = 1

\* the transcription task of delivery q has been started
TaskRunning(q) == q.kind = "webhook" /\ q.tpc \notin {"none", "upserting", "invalid"}

\* C26: no failure of the background task goes unhandled or reaches the
\* webhook response: the facade call never throws into the task, an
\* exception that leaves the task (a 'failed' write that throws) ends it in
\* the catch the handler attached, and whatever path the task takes the
\* response stays the acknowledgement sent when the task was started.
C26_TaskFailuresContained ==
    /\ [](\A r \in Reqs : TaskRunning(req[r]) =>
            /\ req[r].fpc # "threw"
            /\ req[r].response = "ack"
            /\ req[r].escaped => req[r].tpc = "done")
    /\ [][\A r \in Reqs : req[r].response # "none" =>
                               req'[r].response = req[r].response]_vars

\* a task whose 'failed' write threw after a failure of another kind has
\* ended, the delivery acknowledged: once after a facade failure or a failed
\* client construction, once after a 'completed' write error
C26_Witness ==
    \E r, p \in Reqs :
        /\ req[r].escaped /\ req[r].tpc = "done" /\ req[r].response = "ack"
        /\ req[r].nCompleted = 0
        /\ req[p].escaped /\ req[p].tpc = "done" /\ req[p].response = "ack"
        /\ req[p].nCompleted = 1

\* facade calls (transcribeRecording) that the task of delivery q has made
FacadeCalls(q) == IF q.fpc = "idle" THEN 0 ELSE 1

\* C27 as stated: each valid delivery starts exactly one transcription
\* facade call, duplicates included, and an invalid delivery starts none.
C27_OneFacadeCallPerDelivery ==
    \A r \in Reqs : req[r].kind = "webhook" =>
        /\ TaskRunning(req[r]) => FacadeCalls(req[r]) = 1 /\ req[r].cFires = 1
        /\ req[r].tpc = "invalid" => FacadeCalls(req[r]) = 0 /\ req[r].cFires = 0

\* C27 amended: each valid delivery starts exactly one transcription task,
\* duplicates included; the task makes exactly one facade call for its call
\* identifier, or none when the transcription client cannot be constructed
\* (it then goes straight to the 'failed' write); an invalid delivery starts
\* neither.
C27_OneTaskPerDelivery ==
    \A r \in Reqs : req[r].kind = "webhook" =>
        /\ TaskRunning(req[r]) =>
              \/ /\ FacadeCalls(req[r]) = 1 /\ req[r].cFires = 1
                 /\ req[r].terr # MissingEnvMessage
              \/ /\ FacadeCalls(req[r]) = 0 /\ req[r].cFires = 0
                 /\ req[r].terr = MissingEnvMessage /\ req[r].nFailed = 1
        /\ req[r].tpc \in {"invalid", "upserting"} =>
              /\ FacadeCalls(req[r]) = 0 /\ req[r].cFires = 0
              /\ req[r].nFailed = 0 /\ req[r].nCompleted = 0

\* two deliveries for one call identifier, each with its own facade call
C27_Witness ==
    \E r, p \in Reqs :
        /\ r # p /\ req[r].kind = "webhook" /\ req[p].kind = "webhook"
        /\ req[r].uuid = req[p].uuid /\ req[r].uuid # Absent
        /\ req[r].cFires = 1 /\ req[p].cFires = 1

\* C28: a breaker-wrapped facade call that is waiting for its operation
\* eventually returns an envelope, even if the delegate never settles: the
\* breaker's request timeout ends the wait with success:false.
C28_CallEventuallyReturns ==
    \A r \in Reqs :
        (req[r].fpc = "waiting" /\ Wrapped(req[r])) ~>
            (req[r].fpc = "returned" /\ req[r].env.made)

\* a call returned by the timeout while its first attempt is still pending
C28_Witness ==
    \E r \in Reqs :
        /\ req[r].fpc = "returned" /\ req[r].timedOut
        /\ req[r].lpc = "inflight" /\ req[r].nRej = 0
        /\ ~req[r].env.success /\ req[r].env.error = "ETIMEDOUT"

\* request r calls a breaker-wrapped operation on the instance it has just
\* obtained from getPlivoClient / getDeepgramClient
CallsOnSingleton(r) ==
    /\ req[r].kind = "none" /\ req'[r].kind = "api"
    /\ Wrapped(req'[r]) /\ ~req'[r].stale

\* C29: an instance once built stays the singleton until resetClients, so a
\* call meets the breaker as the calls before it have left it (its state
\* and its window, to which the call adds its own 'fire'); resetClients
\* forgets both instances, which are shut down under the calls still
\* waiting on them, and leaves the breakers of the next instances closed
\* with empty windows.
C29_SingletonUntilReset ==
    [][/\ \A f \in Facades :
             (client[f] = "live" /\ client'[f] # "live") => ResetClients
       /\ \A r \in Reqs : CallsOnSingleton(r) =>
             /\ client'[FacadeOfBreaker(req'[r].breaker)] = "live"
             /\ req'[r].admit = br[req'[r].breaker].state
             /\ Stat(br'[req'[r].breaker], "fires")
                    = Stat(br[req'[r].breaker], "fires") + 1
       /\ ResetClients =>
             /\ \A f \in Facades : client'[f] = "none"
             /\ \A n \in BreakerNames : br'[n] = FreshBreaker
             /\ \A r \in Reqs : req[r].fpc = "waiting" => req'[r].stale]_vars

\* after a reset under a waiting call the next call was admitted by a closed
\* breaker whose window holds that call only
C29_Witness ==
    \E r, p \in Reqs :
        /\ p < r /\ req[p].breaker = req[r].breaker
        /\ req[p].stale /\ req[p].cFires = 1
        /\ ~req[r].stale /\ req[r].admit = "closed" /\ req[r].cFires = 1
        /\ hadReset[FacadeOfBreaker(req[r].breaker)]
        /\ client[FacadeOfBreaker(req[r].breaker)] = "live"
        /\ Stat(br[req[r].breaker], "fires") = 1

\* C30: in every interleaving of tasks, a step changes at most the record of
\* the call identifier of the delivery whose handler or task takes the step,
\* no record once written disappears, and the handler goes on from its
\* upsert to the transcription whatever the store already holds (nothing
\* is read back).
C30_WritesOnlyOwnRecord ==
    [][/\ \A u \in Uuids : rec'[u] # rec[u] =>
             /\ rec'[u].transcription_status # Absent
             /\ \E r \in Reqs : /\ req[r].uuid = u
                                 /\ req[r].tpc \in {"upserting", "writingCompleted",
                                                     "writingFailed"}
                                 /\ req'[r].tpc # req[r].tpc
                                 /\ rec'[u].writer = r
                                 /\ \A v \in Uuids \ {u} : rec'[v] = rec[v]
       /\ \A u \in Uuids : rec[u].transcription_status # Absent =>
                                rec'[u].transcription_status # Absent
       /\ \A r \in Reqs :
             (req[r].tpc = "upserting" /\ req'[r].tpc # "upserting") =>
                 req'[r].tpc \in {"transcribing", "writingCompleted", "writingFailed"}]_vars

\* two concurrent tasks have each written the terminal status of their own
\* record, one 'completed' and one 'failed'
C30_Witness ==
    \E r, p \in Reqs :
        /\ req[r].uuid # Absent /\ req[p].uuid # Absent /\ req[r].uuid # req[p].uuid
        /\ req[r].tpc = "done" /\ req[p].tpc = "done"
        /\ rec[req[r].uuid].transcription_status = "completed"
        /\ rec[req[r].uuid].writer = r
        /\ rec[req[p].uuid].transcription_status = "failed"
        /\ rec[req[p].uuid].writer = p

\* C31: once a facade call has returned its envelope, the delegate is not
\* invoked again on behalf of that call.
C31_NoInvocationAfterReturn ==
    [][\A r \in Reqs :
          req[r].fpc = "returned" => req'[r].invoked = req[r].invoked]_vars

C33_TaskStartsAfterPendingStored ==
    /\ [][\A r \in Reqs :
             (req[r].tpc = "upserting" /\ req'[r].tpc # "upserting") =>
                 /\ rec'[req[r].uuid].transcription_status = "pending"
                 /\ rec'[req[r].uuid].writer = r]_vars
    /\ [](\A r \in Reqs :
             req[r].tpc \in {"writingCompleted", "writingFailed"} =>
                 rec[req[r].uuid].transcription_status # Absent)

\* C34 as stated: every success envelope of a breaker-wrapped operation
\* reports circuitBreakerState "false", however concurrent calls on the
\* same breaker interleave.
C34_SuccessReportsNotOpen ==
    \A r \in Reqs :
        (Wrapped(req[r]) /\ req[r].env.made /\ req[r].env.success) =>
            req[r].env.circuitBreakerState = "false"

\* C34 amended: a success envelope of a breaker-wrapped operation reports
\* the status of its breaker at the moment the envelope is produced: "true"
\* when the breaker is open by then (another call's failure has opened it
\* since this call was admitted), "false" otherwise.
C34_SuccessReportsStateAtReturn ==
    [][\A r \in Reqs :
          (Wrapped(req[r]) /\ ~req[r].env.made
           /\ req'[r].env.made /\ req'[r].env.success) =>
              req'[r].env.circuitBreakerState =
                  IF (IF req[r].stale THEN ShutBreaker
                      ELSE br[req[r].breaker]).state = "open"
                  THEN "true" ELSE "false"]_vars

\* a call has returned a success envelope that reports an open breaker
C34_Witness ==
    \E r \in Reqs :
        /\ Wrapped(req[r]) /\ req[r].env.made /\ req[r].env.success
        /\ req[r].env.circuitBreakerState = "true"
        /\ req[r].admit = "closed"

\* C35: a delivery without RecordingUrl or CallUUID is answered with status
\* 400 in a step that leaves the stored records, the breakers and the client
\* unchanged; it makes no storage write and no transcription call, then or
\* later.
C35_InvalidDeliveryRejected ==
    /\ [][\A r \in Reqs :
             /\ (req[r].tpc # "invalid" /\ req'[r].tpc = "invalid") =>
                    /\ req'[r].response = "400"
                    /\ rec' = rec /\ br' = br /\ client' = client
             /\ req[r].tpc = "invalid" => req'[r] = req[r]]_vars
    /\ [](\A r \in Reqs : req[r].tpc = "invalid" =>
             /\ req[r].response = "400"
             /\ req[r].cFires = 0 /\ req[r].invoked = 0
             /\ req[r].nCompleted = 0 /\ req[r].nFailed = 0
             /\ req[r].wrote = "none"
             /\ \A u \in Uuids : rec[u].writer # r)

\* an invalid delivery has been answered 400 while a record of an earlier
\* delivery is stored and the transcription breaker has counted a call
C35_Witness ==
    \E r \in Reqs :
        /\ req[r].tpc = "invalid" /\ req[r].response = "400"
        /\ \E u \in Uuids : rec[u].transcription_status # Absent
        /\ \E p \in Reqs : p < r /\ req[p].cFires = 1

\* C36 as stated: waitForRecording returns the call details as soon as a
\* poll reports the recording, otherwise null, never an error, and makes at
\* most (maxRetries + 1) * maxAttempts getCallDetails invocations.
C36_BoundedPollsThenDetailsOrNull ==
    \A r \in Reqs : req[r].kind = "api" =>
        /\ Len(req[r].polls) <= (maxRetriesCfg + 1) * req[r].maxAttempts
        /\ \A k \in DOMAIN req[r].polls :
               req[r].polls[k].outcome = "ready" =>
                   /\ k = Len(req[r].polls)
                   /\ req[r].fpc = "returned" /\ req[r].val = CallDetails
        /\ req[r].fpc = "returned" =>
               /\ req[r].val \in {CallDetails, "null"}
               /\ req[r].val = CallDetails =>
                      /\ req[r].polls # <<>>
                      /\ req[r].polls[Len(req[r].polls)].outcome = "ready"

\* C37: a get function that finds a required environment value missing
\* throws and leaves its singleton unset; an instance is cached only when
\* the environment of its facade is complete, and once it is complete a
\* call obtains an instance whose breaker admits it and runs the delegate.
C37_NoClientCachedOnMissingEnv ==
    /\ [][\A r \in Reqs, f \in Facades :
             /\ (req[r].fpc # "threw" /\ req'[r].fpc = "threw"
                  /\ req'[r].err = MissingEnvMessageOf(f)) =>
                    /\ ~envOk[f]
                    /\ client[f] = "none" /\ client'[f] = "none"
                    /\ br' = br
             /\ (client[f] = "none" /\ client'[f] # "none") =>
                    /\ envOk[f] /\ client'[f] = "live"
                    /\ \E p \in Reqs :
                          /\ req[p].kind = "none" /\ req'[p].kind = "api"
                          /\ FacadeOfBreaker(req'[p].breaker) = f
                          /\ req'[p].admit = "closed" /\ req'[p].invoked = 1]_vars
    /\ [](\A f \in Facades : client[f] = "live" => envOk[f])

\* a get function has thrown for a facade, the environment was completed,
\* and a later call on the same facade has run on a live instance
C37_Witness ==
    \E r, p \in Reqs, f \in Facades :
        /\ r < p
        /\ req[r].fpc = "threw" /\ req[r].err = MissingEnvMessageOf(f)
        /\ req[p].kind = "api" /\ FacadeOfBreaker(req[p].breaker) = f
        /\ req[p].invoked >= 1 /\ req[p].env.made /\ req[p].env.success
        /\ client[f] = "live"

====
